---------------------------- MODULE Spec2Model ----------------------------
(***************************************************************************)
(* Array variable memory of PC-BASIC (pcbasic/basic/arrays.py, class       *)
(* Arrays): the array table with its four dictionaries, the allocator      *)
(* offset `current` and the OPTION BASE flag; and the lock table of the    *)
(* file manager (pcbasic/files.py, class Files); and the run of a session  *)
(* under the crash guard (pcbasic/wasm.py, _run_session, and               *)
(* pcbasic/guard.py, class ExceptionGuard).                                *)
(***************************************************************************)
EXTENDS Integers, Sequences, FiniteSets, TLC

(* ------------------------------ bounds --------------------------------- *)
\* largest dimension value passed to an explicit DIM
MaxDim == 1
\* bytes the memory-budget collaborator can grant to the array area
MemCeil == 31
\* an element is written while at most MaxWritten elements are non-zero
MaxWritten == 0
\* arrays are declared while at most MaxLeak bytes of current are not
\* accounted for by the declared arrays
MaxLeak == 0
\* calls of clear_base on a table that holds arrays, since the last clear
MaxHalfReset == 1
\* the greatest address at which the array area starts
MaxVarCurrent == 4
\* the greatest file number (max_files of Files.__init__)
MaxFiles == 2
\* the greatest number of calls of _run_session in one launch
MaxRuns == 3

(* --------------------------- program constants -------------------------- *)
\* dimension given to every axis of an auto-dimensioned array
DefaultDim == 10
\* self._base is None
NoBase == -1
\* an empty sprite cache slot (None)
NoItem == "None"

\* numbers of axes of the dimension lists and of the indices
Axes == 1 .. 2
\* array names, as sequences of characters; the last one is the type sigil
Names == { <<"A", "%">>, <<"L", "O", "N", "G", "$">> }
\* dimension lists given to DIM
DimVals == -1 .. MaxDim
DimLists == UNION { [1..n -> DimVals] : n \in Axes }
\* indices given to an element access: those over -1 .. 1, and the index
\* above the bound of an auto-dimensioned array
IndexVals == -1 .. 1
IndexLists == UNION { [1..n -> IndexVals] : n \in Axes }
                  \cup { <<DefaultDim + 1>> }
\* arguments of OPTION BASE
BaseArgs == {0, 1, 2}
\* sprites a rendering collaborator stores in the cache
Items == {"sprite"}
\* values assigned to array elements
WriteVals == {258}
\* absolute addresses of the start of the array area (Memory.var_current)
VarCurrents == {0, MaxVarCurrent}
\* file numbers given to the file manager; number 0 is an unnumbered file
FileNumbers == 0 .. MaxFiles
\* names of disk streams
Streams == {"A.DAT", "B.DAT"}
\* lock types as sequences of characters: default, SHARED, LOCK READ, LOCK
\* WRITE and LOCK READ WRITE
LockTypes == { <<>>, <<"S">>, <<"R">>, <<"W">>, <<"R", "W">> }
\* access modes of an open file
Accesses == { <<"R">>, <<"W">>, <<"R", "W">> }
\* what ends _operate_session: it returns ("none"), or it raises
\* error.Reset, a broken pipe error, or another exception
Exceptions == {"none", "Reset", "BrokenPipe", "Error"}
\* the events Interface.pause returns: QUIT, the Enter key, another key
PauseEvents == {"QUIT", "Enter", "key"}

\* the fields of an Arrays object; nhalf counts the calls of clear_base on
\* a table that holds arrays; howbase tells how OPTION BASE got its value:
\* "unset", "explicit" (by OPTION BASE), "implicit" (by an Arrays.dim that
\* created an array) or "attempt" (by an Arrays.dim that failed)
\* files and locks are the fields of a Files object: the open file of each
\* file number, with its lock type and access mode, and the stream each
\* file number holds a lock on
\* pc is the statement _run_session is at, frame holds its arguments and
\* local variables with the fields of the crash guard, and runs records
\* the calls of _run_session of the launch
VARIABLES _dims, _buffers, _cache, _array_memory, current, _base,
          nhalf, howbase, files, locks, pc, frame, runs

\* the variables of the array memory
arrays_vars == <<_dims, _buffers, _cache, _array_memory, current, _base,
                 nhalf, howbase>>

\* the variables of the file manager
files_vars == <<files, locks>>

\* the variables of the session run
session_vars == <<pc, frame, runs>>

vars == <<_dims, _buffers, _cache, _array_memory, current, _base,
          nhalf, howbase, files, locks, pc, frame, runs>>

(* ------------------------------ helpers -------------------------------- *)
Max(a, b) == IF a >= b THEN a ELSE b

\* del d[k]
Del(d, k) == [x \in DOMAIN d \ {k} |-> d[x]]

\* d[k] = v
Put(d, k, v) == [x \in DOMAIN d \cup {k} |-> IF x = k THEN v ELSE d[x]]

\* bytearray(n)
bytearray(n) == [i \in 1..n |-> 0]

\* the fields of the Arrays object
Self == [_dims |-> _dims, _buffers |-> _buffers, _cache |-> _cache,
         _array_memory |-> _array_memory, current |-> current, _base |-> _base]

\* byte width of an element, by type sigil (values.size_bytes)
size_bytes(name) ==
    CASE name[Len(name)] = "%" -> 2
      [] name[Len(name)] = "!" -> 4
      [] name[Len(name)] = "#" -> 8
      [] name[Len(name)] = "$" -> 3

\* little-endian byte encoding of a value in the element width
to_bytes(name, value) ==
    [i \in 1..size_bytes(name) |-> (value \div (256 ^ (i - 1))) % 256]

RECURSIVE from_bytes_at(_, _)
from_bytes_at(bytes, i) ==
    IF i > Len(bytes) THEN 0 ELSE bytes[i] + 256 * from_bytes_at(bytes, i + 1)

\* value decoded from element bytes
from_bytes(bytes) == from_bytes_at(bytes, 1)

(* ------------------------------ Indexer -------------------------------- *)
RECURSIVE index_loop(_, _, _, _, _, _)
index_loop(i, idx, dimensions, b, bigindex, area) ==
    IF i > Len(idx) THEN bigindex
    ELSE index_loop(i + 1, idx, dimensions, b,
                    bigindex + area * (idx[i] - b),
                    area * (dimensions[i] + 1 - b))

RECURSIVE index_rowmajor_loop(_, _, _, _, _)
index_rowmajor_loop(i, idx, dimensions, b, bigindex) ==
    IF i > Len(idx) THEN bigindex
    ELSE index_rowmajor_loop(i + 1, idx, dimensions, b,
                             bigindex * (dimensions[i] + 1 - b) + (idx[i] - b))

\* Arrays.index with the last axis varying fastest
index_rowmajor(idx, dimensions, b) == index_rowmajor_loop(1, idx, dimensions, b, 0)

RECURSIVE index_unstrided_loop(_, _, _, _, _)
index_unstrided_loop(i, idx, dimensions, b, bigindex) ==
    IF i > Len(idx) THEN bigindex
    ELSE index_unstrided_loop(i + 1, idx, dimensions, b, bigindex + (idx[i] - b))

\* Arrays.index with the area left at 1 on every axis
index_unstrided(idx, dimensions, b) == index_unstrided_loop(1, idx, dimensions, b, 0)

\* Arrays.index under self._base = b
index(idx, dimensions, b) == index_loop(1, idx, dimensions, b, 0, 1)

\* Arrays.array_len without the element of the greatest index
array_len_nolast(dimensions, b) == index(dimensions, dimensions, b)

\* Arrays.array_len under self._base = b
array_len(dimensions, b) == index(dimensions, dimensions, b) + 1

\* record_len without the padding of short names to three bytes
record_len_short(name, dimensions) == 1 + Len(name) + 3 + 2 * Len(dimensions)

\* record_len as computed in dim and in erase
record_len(name, dimensions) == 1 + Max(3, Len(name)) + 3 + 2 * Len(dimensions)

(* --------------------------- Arrays methods ----------------------------- *)
\* Each method is a function of the object's fields s (and its arguments)
\* to the fields after the call and the error raised, "ok" if none.

\* Memory.check_free: the budget collaborator grants the request or not;
\* it never grants more than the ceiling
check_free(s, size, granted) == granted /\ s.current + size <= MemCeil

\* Arrays.clear
clear(s) ==
    [st |-> [s EXCEPT !._dims = <<>>, !._buffers = <<>>, !._cache = <<>>,
                      !._array_memory = <<>>, !.current = 0],
     err |-> "ok"]

\* the checks of Arrays.dim with every negative dimension reported before
\* any dimension below the base
dim_loop_negfirst(dimensions, i, b) ==
    IF \E k \in i..Len(dimensions) : dimensions[k] < 0 THEN "IFC"
    ELSE IF \E k \in i..Len(dimensions) : dimensions[k] < b
      THEN "SUBSCRIPT_OUT_OF_RANGE"
    ELSE "ok"

\* the checks of Arrays.dim with the comparison to the base made first
dim_loop_basefirst(dimensions, i, b) ==
    IF \A k \in i..Len(dimensions) : dimensions[k] >= 0 /\ dimensions[k] >= b
      THEN "ok"
    ELSE LET k == CHOOSE j \in i..Len(dimensions) :
                    /\ dimensions[j] < 0 \/ dimensions[j] < b
                    /\ \A m \in i..(j - 1) : dimensions[m] >= 0 /\ dimensions[m] >= b
         IN  IF dimensions[k] < b THEN "SUBSCRIPT_OUT_OF_RANGE" ELSE "IFC"

RECURSIVE dim_loop(_, _, _)
\* the loop over the dimensions in Arrays.dim
dim_loop(dimensions, i, b) ==
    IF i > Len(dimensions) THEN "ok"
    ELSE IF dimensions[i] < 0 THEN "IFC"
    ELSE IF dimensions[i] < b THEN "SUBSCRIPT_OUT_OF_RANGE"
    ELSE dim_loop(dimensions, i + 1, b)

\* Arrays.dim from the computation of the size on, with current raised
\* before the budget is checked
dim_alloc_late(s, name, dimensions, granted) ==
    LET size == array_len(dimensions, s._base)
        name_ptr == s.current
        rlen == record_len(name, dimensions)
        array_ptr == name_ptr + rlen
        array_bytes == size * size_bytes(name)
        s2 == [s EXCEPT !.current = s.current + rlen + array_bytes]
    IN  IF ~check_free(s, rlen + array_bytes, granted)
          THEN [st |-> s2, err |-> "OUT_OF_MEMORY"]
        ELSE [st |-> [s2 EXCEPT
                        !._array_memory = Put(s._array_memory, name, <<name_ptr, array_ptr>>),
                        !._buffers = Put(s._buffers, name, bytearray(array_bytes)),
                        !._dims = Put(s._dims, name, dimensions),
                        !._cache = Put(s._cache, name, NoItem)],
              err |-> "ok"]

\* Arrays.dim from the computation of the size on: the allocation
dim_alloc(s, name, dimensions, granted) ==
    LET size == array_len(dimensions, s._base)
        name_ptr == s.current
        rlen == record_len(name, dimensions)
        array_ptr == name_ptr + rlen
        array_bytes == size * size_bytes(name)
    IN  IF ~check_free(s, rlen + array_bytes, granted)
          THEN [st |-> s, err |-> "OUT_OF_MEMORY"]
        ELSE [st |-> [s EXCEPT
                        !.current = s.current + rlen + array_bytes,
                        !._array_memory = Put(s._array_memory, name, <<name_ptr, array_ptr>>),
                        !._buffers = Put(s._buffers, name, bytearray(array_bytes)),
                        !._dims = Put(s._dims, name, dimensions),
                        !._cache = Put(s._cache, name, NoItem)],
              err |-> "ok"]

\* Arrays.dim with the dimensions checked before the name
dim_checkfirst(s, name, dimensions, granted) ==
    LET s1 == [s EXCEPT !._base = IF s._base = NoBase THEN 0 ELSE s._base]
        chk == dim_loop(dimensions, 1, s1._base)
    IN  IF chk # "ok"
          THEN [st |-> s1, err |-> chk]
        ELSE IF name \in DOMAIN s._dims
          THEN [st |-> s1, err |-> "DUPLICATE_DEFINITION"]
        ELSE dim_alloc(s1, name, dimensions, granted)

\* Arrays.dim with the unset base resolved only when the array is recorded
dim_lateresolve(s, name, dimensions, granted) ==
    LET s1 == [s EXCEPT !._base = IF s._base = NoBase THEN 0 ELSE s._base]
        chk == dim_loop(dimensions, 1, s1._base)
        d == dim_alloc(s1, name, dimensions, granted)
    IN  IF name \in DOMAIN s._dims
          THEN [st |-> s, err |-> "DUPLICATE_DEFINITION"]
        ELSE IF chk # "ok"
          THEN [st |-> s, err |-> chk]
        ELSE IF d.err # "ok"
          THEN [st |-> s, err |-> d.err]
        ELSE d

\* Arrays.dim
dim(s, name, dimensions, granted) ==
    LET s1 == [s EXCEPT !._base = IF s._base = NoBase THEN 0 ELSE s._base]
        chk == dim_loop(dimensions, 1, s1._base)
    IN  IF name \in DOMAIN s._dims
          THEN [st |-> s1, err |-> "DUPLICATE_DEFINITION"]
        ELSE IF chk # "ok"
          THEN [st |-> s1, err |-> chk]
        ELSE dim_alloc(s1, name, dimensions, granted)

\* the loop over the remaining arrays in Arrays.erase
erase_compact(mem, erased_name_ptr, freed_bytes) ==
    [n \in DOMAIN mem |->
       IF mem[n][1] > erased_name_ptr
         THEN <<mem[n][1] - freed_bytes, mem[n][2] - freed_bytes>>
         ELSE mem[n]]

\* Arrays.erase that also empties the cache slots of the arrays it moves
erase_dropcache(s, name) ==
    IF name \notin DOMAIN s._dims
      THEN [st |-> s, err |-> "IFC"]
    ELSE IF s._base = NoBase /\ Len(s._dims[name]) > 0
      THEN [st |-> s, err |-> "TypeError"]
    ELSE
      LET dimensions == s._dims[name]
          rlen == record_len(name, dimensions)
          freed_bytes == array_len(dimensions, s._base) * size_bytes(name) + rlen
          erased_name_ptr == s._array_memory[name][1]
          cch == Del(s._cache, name)
      IN  [st |-> [s EXCEPT
                     !._dims = Del(s._dims, name),
                     !._buffers = Del(s._buffers, name),
                     !._cache = [n \in DOMAIN cch |->
                                   IF n \in DOMAIN s._array_memory
                                      /\ s._array_memory[n][1] > erased_name_ptr
                                     THEN NoItem ELSE cch[n]],
                     !._array_memory = erase_compact(Del(s._array_memory, name),
                                                     erased_name_ptr, freed_bytes),
                     !.current = s.current - freed_bytes],
           err |-> "ok"]

\* Arrays.erase that unsets OPTION BASE when it removes the last array
erase_unsetbase(s, name) ==
    IF name \notin DOMAIN s._dims
      THEN [st |-> s, err |-> "IFC"]
    ELSE IF s._base = NoBase /\ Len(s._dims[name]) > 0
      THEN [st |-> s, err |-> "TypeError"]
    ELSE
      LET dimensions == s._dims[name]
          rlen == record_len(name, dimensions)
          freed_bytes == array_len(dimensions, s._base) * size_bytes(name) + rlen
          erased_name_ptr == s._array_memory[name][1]
      IN  [st |-> [s EXCEPT
                     !._dims = Del(s._dims, name),
                     !._buffers = Del(s._buffers, name),
                     !._cache = Del(s._cache, name),
                     !._array_memory = erase_compact(Del(s._array_memory, name),
                                                     erased_name_ptr, freed_bytes),
                     !.current = s.current - freed_bytes,
                     !._base = IF DOMAIN s._dims = {name} THEN NoBase ELSE s._base],
           err |-> "ok"]

\* Arrays.erase with a name that is not declared passed over in silence
erase_absent_ok(s, name) ==
    IF name \notin DOMAIN s._dims
      THEN [st |-> s, err |-> "ok"]
    ELSE IF s._base = NoBase /\ Len(s._dims[name]) > 0
      THEN [st |-> s, err |-> "TypeError"]
    ELSE
      LET dimensions == s._dims[name]
          rlen == record_len(name, dimensions)
          freed_bytes == array_len(dimensions, s._base) * size_bytes(name) + rlen
          erased_name_ptr == s._array_memory[name][1]
      IN  [st |-> [s EXCEPT
                     !._dims = Del(s._dims, name),
                     !._buffers = Del(s._buffers, name),
                     !._cache = Del(s._cache, name),
                     !._array_memory = erase_compact(Del(s._array_memory, name),
                                                     erased_name_ptr, freed_bytes),
                     !.current = s.current - freed_bytes],
           err |-> "ok"]

\* Arrays.erase; with OPTION BASE unset, array_len raises TypeError
erase(s, name) ==
    IF name \notin DOMAIN s._dims
      THEN [st |-> s, err |-> "IFC"]
    ELSE IF s._base = NoBase /\ Len(s._dims[name]) > 0
      THEN [st |-> s, err |-> "TypeError"]
    ELSE
      LET dimensions == s._dims[name]
          rlen == record_len(name, dimensions)
          freed_bytes == array_len(dimensions, s._base) * size_bytes(name) + rlen
          erased_name_ptr == s._array_memory[name][1]
      IN  [st |-> [s EXCEPT
                     !._dims = Del(s._dims, name),
                     !._buffers = Del(s._buffers, name),
                     !._cache = Del(s._cache, name),
                     !._array_memory = erase_compact(Del(s._array_memory, name),
                                                     erased_name_ptr, freed_bytes),
                     !.current = s.current - freed_bytes],
           err |-> "ok"]

\* Arrays.clear_base
clear_base(s) == [st |-> [s EXCEPT !._base = NoBase], err |-> "ok"]

\* Arrays.base without the comparison to the base already set
base_overwrite(s, b) ==
    IF b \notin {1, 0}
      THEN [st |-> s, err |-> "STX"]
    ELSE [st |-> [s EXCEPT !._base = b], err |-> "ok"]

\* Arrays.base
base(s, b) ==
    IF b \notin {1, 0}
      THEN [st |-> s, err |-> "STX"]
    ELSE IF s._base # NoBase /\ b # s._base
      THEN [st |-> s, err |-> "DUPLICATE_DEFINITION"]
    ELSE [st |-> [s EXCEPT !._base = b], err |-> "ok"]

\* Arrays.set_cache
set_cache(s, name, item) ==
    [st |-> [s EXCEPT !._cache = Put(s._cache, name, item)], err |-> "ok"]

\* Arrays.get_cache: a name without a slot raises KeyError
get_cache(s, name) ==
    IF name \in DOMAIN s._cache
      THEN [st |-> s, err |-> "ok", ret |-> s._cache[name]]
    ELSE [st |-> s, err |-> "KeyError", ret |-> NoItem]

\* the loop of Arrays.check_dim with the range compared before the sign
check_dim_loop_rangefirst(idx, dimensions, i, b) ==
    IF \A k \in i..Len(idx) :
         idx[k] >= 0 /\ ~(b # NoBase /\ idx[k] < b) /\ idx[k] <= dimensions[k]
      THEN "ok"
    ELSE LET k == CHOOSE j \in i..Len(idx) :
                    /\ idx[j] < 0 \/ (b # NoBase /\ idx[j] < b) \/ idx[j] > dimensions[j]
                    /\ \A m \in i..(j - 1) :
                         idx[m] >= 0 /\ ~(b # NoBase /\ idx[m] < b) /\ idx[m] <= dimensions[m]
         IN  IF (b # NoBase /\ idx[k] < b) \/ idx[k] > dimensions[k]
               THEN "SUBSCRIPT_OUT_OF_RANGE" ELSE "IFC"

RECURSIVE check_dim_loop(_, _, _, _)
\* the loop over zip(index, dimensions) in Arrays.check_dim; the
\* comparison i < None of an unset base is false
check_dim_loop(idx, dimensions, i, b) ==
    IF i > Len(idx) THEN "ok"
    ELSE IF idx[i] < 0 THEN "IFC"
    ELSE IF (b # NoBase /\ idx[i] < b) \/ idx[i] > dimensions[i]
      THEN "SUBSCRIPT_OUT_OF_RANGE"
    ELSE check_dim_loop(idx, dimensions, i + 1, b)

\* the dimensions check_dim declares an undeclared array with
AutoDims(idx) == [i \in 1..Len(idx) |-> DefaultDim]

\* Arrays.check_dim with the index of an undeclared name checked against
\* the default dimensions before the array is declared
check_dim_rangefirst(s, name, idx, granted) ==
    LET declared == name \in DOMAIN s._dims
        dimensions == IF declared THEN s._dims[name] ELSE AutoDims(idx)
        chk == check_dim_loop(idx, dimensions, 1, s._base)
        d == IF declared THEN [st |-> s, err |-> "ok"]
             ELSE dim(s, name, dimensions, granted)
    IN  IF Len(idx) # Len(dimensions)
          THEN [st |-> s, err |-> "SUBSCRIPT_OUT_OF_RANGE", dimensions |-> dimensions]
        ELSE IF chk # "ok"
          THEN [st |-> s, err |-> chk, dimensions |-> dimensions]
        ELSE [st |-> d.st, err |-> d.err, dimensions |-> dimensions]

\* Arrays.check_dim with the implicit declaration undone when the index is
\* refused
check_dim_rollback(s, name, idx, granted) ==
    LET declared == name \in DOMAIN s._dims
        dimensions == IF declared THEN s._dims[name]
                      ELSE AutoDims(idx)
        d == IF declared THEN [st |-> s, err |-> "ok"]
             ELSE dim(s, name, dimensions, granted)
        chk == IF Len(idx) # Len(dimensions) THEN "SUBSCRIPT_OUT_OF_RANGE"
               ELSE check_dim_loop(idx, dimensions, 1, d.st._base)
    IN  IF d.err # "ok"
          THEN [st |-> d.st, err |-> d.err, dimensions |-> dimensions]
        ELSE [st |-> IF chk = "ok" THEN d.st ELSE [s EXCEPT !._base = d.st._base],
              err |-> chk, dimensions |-> dimensions]

\* Arrays.check_dim; dimensions is the list it returns
check_dim(s, name, idx, granted) ==
    LET declared == name \in DOMAIN s._dims
        dimensions == IF declared THEN s._dims[name]
                      ELSE AutoDims(idx)
        d == IF declared THEN [st |-> s, err |-> "ok"]
             ELSE dim(s, name, dimensions, granted)
    IN  IF d.err # "ok"
          THEN [st |-> d.st, err |-> d.err, dimensions |-> dimensions]
        ELSE IF Len(idx) # Len(dimensions)
          THEN [st |-> d.st, err |-> "SUBSCRIPT_OUT_OF_RANGE", dimensions |-> dimensions]
        ELSE [st |-> d.st,
              err |-> check_dim_loop(idx, dimensions, 1, d.st._base),
              dimensions |-> dimensions]

\* Arrays.view_buffer with the flat index taken as a byte offset
view_buffer_unscaled(s, name, idx, granted) ==
    LET c == check_dim(s, name, idx, granted)
        bigindex == index(idx, c.dimensions, c.st._base)
        bytesize == size_bytes(name)
        n == Len(c.st._buffers[name])
    IN  IF c.err # "ok"
          THEN [st |-> c.st, err |-> c.err, lo |-> 1, hi |-> 0]
        ELSE IF c.st._base = NoBase
          THEN [st |-> c.st, err |-> "TypeError", lo |-> 1, hi |-> 0]
        ELSE [st |-> c.st, err |-> "ok",
              lo |-> bigindex + 1,
              hi |-> IF bigindex + bytesize > n THEN n ELSE bigindex + bytesize]

\* Arrays.view_buffer: lo and hi delimit the element's bytes in the buffer
\* (1-based, inclusive); a slice is cut at the end of the buffer; with
\* OPTION BASE unset, index raises TypeError
view_buffer(s, name, idx, granted) ==
    LET c == check_dim(s, name, idx, granted)
        bigindex == index(idx, c.dimensions, c.st._base)
        bytesize == size_bytes(name)
        n == Len(c.st._buffers[name])
    IN  IF c.err # "ok"
          THEN [st |-> c.st, err |-> c.err, lo |-> 1, hi |-> 0]
        ELSE IF c.st._base = NoBase
          THEN [st |-> c.st, err |-> "TypeError", lo |-> 1, hi |-> 0]
        ELSE [st |-> c.st, err |-> "ok",
              lo |-> bigindex * bytesize + 1,
              hi |-> IF (bigindex + 1) * bytesize > n THEN n
                     ELSE (bigindex + 1) * bytesize]

\* Arrays.get: ret is the value built from the viewed bytes; a view that is
\* not one element wide is refused by the value collaborator
get(s, name, idx, granted) ==
    LET v == view_buffer(s, name, idx, granted)
    IN  IF v.err # "ok"
          THEN [st |-> v.st, err |-> v.err, ret |-> 0]
        ELSE IF v.hi - v.lo + 1 # size_bytes(name)
          THEN [st |-> v.st, err |-> "ValueError", ret |-> 0]
        ELSE [st |-> v.st, err |-> "ok",
              ret |-> from_bytes(SubSeq(v.st._buffers[name], v.lo, v.hi))]

\* Arrays.set without the last statement, the reset of the cache slot
set_keepcache(s, name, idx, value, granted) ==
    LET v == view_buffer(s, name, idx, granted)
        bytes == to_bytes(name, value)
        buf == v.st._buffers[name]
    IN  IF v.err # "ok"
          THEN [st |-> v.st, err |-> v.err]
        ELSE IF v.hi - v.lo + 1 # Len(bytes)
          THEN [st |-> v.st, err |-> "ValueError"]
        ELSE [st |-> [v.st EXCEPT
                        !._buffers = Put(v.st._buffers, name,
                            [i \in 1..Len(buf) |->
                               IF v.lo <= i /\ i <= v.hi THEN bytes[i - v.lo + 1]
                               ELSE buf[i]])],
              err |-> "ok"]

\* Arrays.set with the buffer rebuilt around the written element
set_rebuild(s, name, idx, value, granted) ==
    LET v == view_buffer(s, name, idx, granted)
        bytes == to_bytes(name, value)
        buf == v.st._buffers[name]
    IN  IF v.err # "ok"
          THEN [st |-> v.st, err |-> v.err]
        ELSE IF v.hi - v.lo + 1 # Len(bytes)
          THEN [st |-> v.st, err |-> "ValueError"]
        ELSE [st |-> [v.st EXCEPT
                        !._buffers = Put(v.st._buffers, name,
                            [i \in 1..Len(buf) |->
                               IF v.lo <= i /\ i <= v.hi THEN bytes[i - v.lo + 1]
                               ELSE 0]),
                        !._cache = Put(v.st._cache, name, NoItem)],
              err |-> "ok"]

\* Arrays.set: a slice assignment of another length raises ValueError
set(s, name, idx, value, granted) ==
    LET v == view_buffer(s, name, idx, granted)
        bytes == to_bytes(name, value)
        buf == v.st._buffers[name]
    IN  IF v.err # "ok"
          THEN [st |-> v.st, err |-> v.err]
        ELSE IF v.hi - v.lo + 1 # Len(bytes)
          THEN [st |-> v.st, err |-> "ValueError"]
        ELSE [st |-> [v.st EXCEPT
                        !._buffers = Put(v.st._buffers, name,
                            [i \in 1..Len(buf) |->
                               IF v.lo <= i /\ i <= v.hi THEN bytes[i - v.lo + 1]
                               ELSE buf[i]]),
                        !._cache = Put(v.st._cache, name, NoItem)],
              err |-> "ok"]

\* Values.from_bytes: the type of the value follows from the number of
\* bytes; ret pairs that number with the number the bytes encode
values_from_bytes(bytes) ==
    IF Len(bytes) \in {2, 3, 4, 8}
      THEN [err |-> "ok", ret |-> <<Len(bytes), from_bytes(bytes)>>]
    ELSE [err |-> "ValueError", ret |-> NoItem]

\* Arrays.varptr with var_current = vc: an undeclared name raises KeyError,
\* an unset OPTION BASE TypeError in index, and more indices than
\* dimensions IndexError in index
varptr(s, vc, name, indices) ==
    IF name \notin DOMAIN s._dims
      THEN [err |-> "KeyError", ret |-> NoItem]
    ELSE IF s._base = NoBase
      THEN [err |-> "TypeError", ret |-> NoItem]
    ELSE IF Len(indices) > Len(s._dims[name])
      THEN [err |-> "IndexError", ret |-> NoItem]
    ELSE [err |-> "ok",
          ret |-> vc + s._array_memory[name][2]
                    + size_bytes(name) * index(indices, s._dims[name], s._base)]

\* the names the loop of Arrays.dereference can end with as found_name:
\* those whose data address is the greatest one that is not above address
deref_found(s, vc, address) ==
    { n \in DOMAIN s._array_memory :
        /\ vc + s._array_memory[n][2] > -1
        /\ vc + s._array_memory[n][2] <= address
        /\ \A m \in DOMAIN s._array_memory :
             vc + s._array_memory[m][2] <= address
               => s._array_memory[m][2] <= s._array_memory[n][2] }

\* Arrays.dereference after its loop, which ended with found_name = found
\* and the loop variable name = last; the slice of the buffer is cut at its
\* end
deref_value(s, vc, address, found, last) ==
    LET lst == s._buffers[last]
        offset == address - (vc + s._array_memory[found][2])
        hi == IF offset + size_bytes(last) > Len(lst) THEN Len(lst)
              ELSE offset + size_bytes(last)
    IN  values_from_bytes(SubSeq(lst, offset + 1, hi))

\* Arrays.dereference with var_current = vc: the outcomes over the orders
\* in which the dictionary can be iterated; the loop variable ends as any
\* of its keys
dereference(s, vc, address) ==
    IF deref_found(s, vc, address) = {}
      THEN { [err |-> "ok", ret |-> NoItem] }
    ELSE { deref_value(s, vc, address, found, last) :
             found \in deref_found(s, vc, address),
             last \in DOMAIN s._array_memory }

\* Arrays.array_size_bytes under the base in force; with OPTION BASE unset,
\* array_len raises TypeError
array_size_bytes(s, name) ==
    IF name \notin DOMAIN s._dims THEN [err |-> "ok", ret |-> 0]
    ELSE IF s._base = NoBase THEN [err |-> "TypeError", ret |-> NoItem]
    ELSE [err |-> "ok",
          ret |-> array_len(s._dims[name], s._base) * size_bytes(name)]

\* scalars.get_name_in_memory: the byte at offset of the encoded name; the
\* encoding is kept abstract, the byte stands for (name, offset)
get_name_in_memory(name, offset) ==
    [err |-> "ok", part |-> "name", of |-> name, ret |-> offset]

\* struct.pack('<H', w): the two bytes of a word, low byte first; -1
\* stands for the struct.error of a word out of range
pack_H(w) ==
    IF w < 0 \/ w > 65535 THEN <<-1>> ELSE <<w % 256, w \div 256>>

RECURSIVE pack_dims(_, _, _)
\* the loop of Arrays.get_memory over the dimensions
pack_dims(dimensions, i, b) ==
    IF i > Len(dimensions) THEN <<>>
    ELSE pack_H(dimensions[i] + 1 - b) \o pack_dims(dimensions, i + 1, b)

\* the packed record of the header of the_arr built by Arrays.get_memory
data_rep(s, the_arr) ==
    LET dimensions == s._dims[the_arr]
    IN  pack_H(array_size_bytes(s, the_arr).ret + 1 + 2 * Len(dimensions))
          \o <<Len(dimensions)>>
          \o pack_dims(dimensions, 1, s._base)

\* the names the loop of Arrays.get_memory can end with as the_arr: those
\* whose header address is the greatest one that is not above address
get_memory_owners(s, address) ==
    { n \in DOMAIN s._array_memory :
        /\ s._array_memory[n][1] <= address
        /\ s._array_memory[n][1] > -1
        /\ \A m \in DOMAIN s._array_memory :
             s._array_memory[m][1] <= address
               => s._array_memory[m][1] <= s._array_memory[n][1] }

\* what Arrays.get_memory gives when it raises err
raised(err) == [err |-> err, part |-> "none", of |-> NoItem, ret |-> -1]

\* Arrays.get_memory after its loop, which ended with the_arr, under
\* var_current = vc; part tells a byte of a buffer ("data"), of the encoded
\* name ("name") and of the packed record ("record") from the result -1
\* ("none"), and of is the array the byte is taken from; a sequence index
\* out of range raises IndexError
get_memory_of(s, vc, address, the_arr) ==
    LET name_addr == s._array_memory[the_arr][1]
        arr_addr == s._array_memory[the_arr][2]
        namelen == Max(3, Len(the_arr)) + 1
        size == array_size_bytes(s, the_arr)
        byte_array == s._buffers[the_arr]
    IN  IF address >= vc + arr_addr
          THEN LET offset == address - arr_addr - vc
               IN  IF size.err # "ok" THEN raised(size.err)
                   ELSE IF offset >= size.ret
                     THEN [err |-> "ok", part |-> "none", of |-> NoItem, ret |-> -1]
                   ELSE IF offset >= Len(byte_array) THEN raised("IndexError")
                   ELSE [err |-> "ok", part |-> "data", of |-> the_arr,
                         ret |-> byte_array[offset + 1]]
        ELSE LET offset == address - name_addr - vc
             IN  IF offset < namelen THEN get_name_in_memory(the_arr, offset)
                 ELSE IF size.err # "ok" THEN raised(size.err)
                 ELSE LET rep == data_rep(s, the_arr)
                      IN  IF \E i \in DOMAIN rep : rep[i] = -1
                            THEN raised("struct.error")
                          ELSE IF offset - namelen >= Len(rep)
                            THEN raised("IndexError")
                          ELSE [err |-> "ok", part |-> "record", of |-> the_arr,
                                ret |-> rep[offset - namelen + 1]]

\* Arrays.get_memory with var_current = vc: the outcomes over the orders in
\* which the dictionary can be iterated
get_memory(s, vc, address) ==
    IF get_memory_owners(s, address) = {}
      THEN { [err |-> "ok", part |-> "none", of |-> NoItem, ret |-> -1] }
    ELSE { get_memory_of(s, vc, address, the_arr) :
             the_arr \in get_memory_owners(s, address) }

(* ------------------------------ actions -------------------------------- *)
RECURSIVE Occupied(_)
\* bytes of the arena taken by the headers and buffers of the arrays in S
Occupied(S) ==
    IF S = {} THEN 0
    ELSE LET n == CHOOSE x \in S : TRUE
         IN  record_len(n, _dims[n]) + Len(_buffers[n]) + Occupied(S \ {n})

\* bytes of current that no declared array accounts for
Leak == current - Occupied(DOMAIN _dims)

\* the states in which declarations are explored
LeakBounded == -MaxLeak <= Leak /\ Leak <= MaxLeak

\* number of elements of the buffers that hold a non-zero byte
Written ==
    Cardinality(UNION { { <<n, (i - 1) \div size_bytes(n)>> :
                            i \in { j \in DOMAIN _buffers[n] : _buffers[n][j] # 0 } }
                        : n \in DOMAIN _buffers })

\* the object after a call with outcome r; the calls of one method whose
\* outcomes agree are one step
Apply(outcome, op) ==
    \E r \in {outcome} :
        /\ _dims' = r.st._dims
        /\ _buffers' = r.st._buffers
        /\ _cache' = r.st._cache
        /\ _array_memory' = r.st._array_memory
        /\ current' = r.st.current
        /\ _base' = r.st._base
        /\ howbase' = IF r.st._base = NoBase THEN "unset"
                      ELSE IF _base # NoBase THEN howbase
                      ELSE IF op = "base" THEN "explicit"
                      ELSE IF DOMAIN r.st._dims # DOMAIN _dims THEN "implicit"
                      ELSE "attempt"
        /\ UNCHANGED <<files_vars, session_vars>>

\* before Interface.launch calls _run_session: no session, no exception,
\* the guard not entered
NoFrame ==
    [guarded |-> FALSE, resume |-> FALSE, session |-> "none", exc |-> "none",
     exception_handled |-> NoItem, shown |-> FALSE]

SessionInit == pc = "launch" /\ frame = NoFrame /\ runs = <<>>

\* Files.__init__
FilesInit == files = <<>> /\ locks = <<>>

\* Arrays.__init__, next to a new file manager
Init ==
    /\ _dims = <<>>
    /\ _buffers = <<>>
    /\ _cache = <<>>
    /\ _array_memory = <<>>
    /\ current = 0
    /\ _base = NoBase
    /\ nhalf = 0
    /\ howbase = "unset"
    /\ FilesInit
    /\ SessionInit

Clear ==
    /\ Apply(clear(Self), "clear")
    /\ nhalf' = 0

Dim ==
    /\ LeakBounded
    /\ \E r \in { dim(Self, name, dimensions, granted) :
                   name \in Names, dimensions \in DimLists, granted \in BOOLEAN } :
          Apply(r, "dim")
    /\ UNCHANGED nhalf

Erase ==
    \E name \in Names :
        /\ Apply(erase(Self, name), "erase")
        /\ UNCHANGED nhalf

ClearBase ==
    /\ _dims # <<>> => nhalf < MaxHalfReset
    /\ Apply(clear_base(Self), "clear_base")
    /\ nhalf' = IF _dims # <<>> THEN nhalf + 1 ELSE nhalf

Base ==
    \E b \in BaseArgs :
        /\ Apply(base(Self, b), "base")
        /\ UNCHANGED nhalf

SetCache ==
    \E name \in Names, item \in Items :
        /\ Apply(set_cache(Self, name, item), "set_cache")
        /\ UNCHANGED nhalf

\* the names on which element access is explored
Accessible == IF LeakBounded THEN Names ELSE DOMAIN _dims

Get ==
    /\ \E r \in { get(Self, name, idx, granted) :
                   name \in Accessible, idx \in IndexLists, granted \in BOOLEAN } :
          Apply(r, "get")
    /\ UNCHANGED nhalf

Set ==
    /\ \E r \in { set(Self, name, idx, value, granted) :
                   name \in Accessible, idx \in IndexLists, value \in WriteVals,
                   granted \in BOOLEAN } :
          /\ r.err = "ok" => Written <= MaxWritten
          /\ Apply(r, "set")
    /\ UNCHANGED nhalf

Next ==
    \/ Clear
    \/ Dim
    \/ Erase
    \/ ClearBase
    \/ Base
    \/ SetCache
    \/ Get
    \/ Set

Spec == Init /\ [][Next]_vars

(* ----------------------------- file manager ----------------------------- *)
\* the Files object
FSelf == [files |-> files, locks |-> locks]

\* the Python test `sub in str` on strings
IsIn(sub, str) ==
    \E i \in 0 .. (Len(str) - Len(sub)) : SubSeq(str, i + 1, i + Len(sub)) = sub

\* Files.open up to the registration of the file the device opened; the
\* file object carries the lock type and the access mode of the call
open(fs, number, description, lock, access) ==
    IF description = "" \/ number < 0 \/ number > MaxFiles
      THEN [st |-> fs, err |-> "BAD_FILE_NUMBER"]
    ELSE IF number \in DOMAIN fs.files
      THEN [st |-> fs, err |-> "FILE_ALREADY_OPEN"]
    ELSE IF number # 0
      THEN [st |-> [fs EXCEPT !.files =
                      Put(fs.files, number, [lock_type |-> lock, access |-> access])],
            err |-> "ok"]
    ELSE [st |-> fs, err |-> "ok"]

\* Files.close: closing a number that is not open does nothing
close(fs, num) == [st |-> [fs EXCEPT !.files = Del(fs.files, num)], err |-> "ok"]

\* Files.close_all
close_all(fs) == [st |-> [fs EXCEPT !.files = <<>>], err |-> "ok"]

\* Files._list_locks: the file numbers whose files the list holds; a lock
\* of a number without an open file raises KeyError
list_locks(fs, name) ==
    LET held == { fnum \in DOMAIN fs.locks : fs.locks[fnum] = name }
    IN  IF held \subseteq DOMAIN fs.files
          THEN [err |-> "ok", ret |-> held]
        ELSE [err |-> "KeyError", ret |-> {}]

\* the test of the loop of Files._acquire_lock on the open file f
refused(f, lock_type, access) ==
    \/ lock_type = <<>> /\ f.lock_type # <<>>
    \/ lock_type = <<"R", "W">>
    \/ lock_type = <<"S">> /\ f.lock_type = <<>>
    \/ IsIn(lock_type, f.access)
    \/ IsIn(f.lock_type, access)

\* Files._acquire_lock
acquire_lock(fs, name, number, lock_type, access) ==
    LET already_open == list_locks(fs, name)
    IN  IF number = 0
          THEN [st |-> fs, err |-> "ok"]
        ELSE IF already_open.err # "ok"
          THEN [st |-> fs, err |-> already_open.err]
        ELSE IF \E fnum \in already_open.ret :
                  refused(fs.files[fnum], lock_type, access)
          THEN [st |-> fs, err |-> "PERMISSION_DENIED"]
        ELSE [st |-> [fs EXCEPT !.locks = Put(fs.locks, number, name)],
              err |-> "ok"]

\* Files._release_lock
release_lock(fs, number) ==
    [st |-> [fs EXCEPT !.locks = Del(fs.locks, number)], err |-> "ok"]

\* the tables of the file manager become those of fs
Becomes(fs) == files' = fs.files /\ locks' = fs.locks

Open ==
    \E number \in FileNumbers \cup {MaxFiles + 1}, description \in Streams \cup {""},
       lock \in LockTypes, access \in Accesses :
        /\ Becomes(open(FSelf, number, description, lock, access).st)
        /\ UNCHANGED <<arrays_vars, session_vars>>

Close ==
    \E num \in FileNumbers :
        /\ Becomes(close(FSelf, num).st)
        /\ UNCHANGED <<arrays_vars, session_vars>>

CloseAll ==
    /\ Becomes(close_all(FSelf).st)
    /\ UNCHANGED <<arrays_vars, session_vars>>

AcquireLock ==
    \E name \in Streams, number \in FileNumbers, lock_type \in LockTypes,
       access \in Accesses :
        /\ Becomes(acquire_lock(FSelf, name, number, lock_type, access).st)
        /\ UNCHANGED <<arrays_vars, session_vars>>

ReleaseLock ==
    \E number \in FileNumbers :
        /\ Becomes(release_lock(FSelf, number).st)
        /\ UNCHANGED <<arrays_vars, session_vars>>

FilesNext ==
    \/ Open
    \/ Close
    \/ CloseAll
    \/ AcquireLock
    \/ ReleaseLock

FilesSpec == Init /\ [][FilesNext]_vars

(* ------------------------------ session run ----------------------------- *)
\* what ExceptionGuard._bluescreen does: it shows the message and returns
\* True, returns False for want of a session implementation, or raises
Bluescreens == {"shown", "no_impl", "raised"}

\* ExceptionGuard.__exit__ before its loop: "False" lets the exception
\* pass, "raised" is an exception of the crash report, "pause" enters the
\* loop
guard_exit(exc, bluescreen) ==
    IF exc = "none" \/ exc = "Reset" THEN "False"
    ELSE IF exc = "BrokenPipe" THEN "False"
    ELSE IF bluescreen = "no_impl" THEN "False"
    ELSE IF bluescreen = "raised" THEN "raised"
    ELSE "pause"

\* the loop of ExceptionGuard.__exit__ with the flag set by every event
\* that leaves the loop
guard_pause_anyleave(event, exc, exception_handled) ==
    IF event = "QUIT" \/ event = "Enter"
      THEN [leave |-> TRUE, exception_handled |-> exc]
    ELSE [leave |-> FALSE, exception_handled |-> exception_handled]

\* one turn of the loop of ExceptionGuard.__exit__ on an event of
\* Interface.pause: whether the loop is left, and exception_handled
guard_pause(event, exc, exception_handled) ==
    IF event = "QUIT"
      THEN [leave |-> TRUE, exception_handled |-> exception_handled]
    ELSE IF event = "Enter"
      THEN [leave |-> TRUE, exception_handled |-> exc]
    ELSE [leave |-> FALSE, exception_handled |-> exception_handled]

\* the test of _run_session after the with statement; an exception value
\* is true, None is not
run_again(guarded, exception_handled) ==
    guarded /\ exception_handled # NoItem

\* the record of a call of _run_session: its resume argument, whether
\* SessionAsync.resume succeeded, the sessions that were started and
\* operated, what ended the operation, and the event that ended the pause
NewRun(resume) ==
    [resume |-> resume, resumed |-> FALSE, started |-> "none",
     operated |-> "none", exc |-> "none", shown |-> FALSE, answer |-> "none"]

\* the record of the call in progress, with field f set to v
Noted(f, v) == [runs EXCEPT ![Len(runs)] = [@ EXCEPT ![f] = v]]

\* Interface.launch calls _run_session, with the crash guard or with the
\* default nullcontext as exception_handler
Launch ==
    /\ pc = "launch"
    /\ \E guarded \in BOOLEAN, resume \in BOOLEAN :
         /\ frame' = [NoFrame EXCEPT !.guarded = guarded, !.resume = resume]
         /\ runs' = <<NewRun(resume)>>
    /\ pc' = "entry"
    /\ UNCHANGED <<arrays_vars, files_vars>>

\* lines 34-41: resume the session of the state file, give up when that
\* fails
Resume ==
    /\ pc = "entry"
    /\ IF frame.resume
         THEN \E ok \in BOOLEAN :
                IF ok
                  THEN /\ frame' = [frame EXCEPT !.session = "resumed"]
                       /\ runs' = Noted("resumed", TRUE)
                       /\ pc' = "create"
                ELSE /\ pc' = "returned"
                     /\ UNCHANGED <<frame, runs>>
       ELSE /\ pc' = "create"
            /\ UNCHANGED <<frame, runs>>
    /\ UNCHANGED <<arrays_vars, files_vars>>

\* line 44: session = SessionAsync(**session_params)
Create ==
    /\ pc = "create"
    /\ frame' = [frame EXCEPT !.session = "fresh"]
    /\ pc' = "start"
    /\ UNCHANGED <<runs, arrays_vars, files_vars>>

\* line 45: session.start_async(), outside the guard
Start ==
    /\ pc = "start"
    /\ \E ok \in BOOLEAN :
         IF ok THEN /\ runs' = Noted("started", frame.session)
                    /\ pc' = "enter"
                    /\ UNCHANGED frame
         ELSE /\ frame' = [frame EXCEPT !.exc = "Error"]
              /\ pc' = "raised"
              /\ UNCHANGED runs
    /\ UNCHANGED <<arrays_vars, files_vars>>

\* lines 46-47: ExceptionGuard.__call__ and __enter__
Enter ==
    /\ pc = "enter"
    /\ frame' = IF frame.guarded
                  THEN [frame EXCEPT !.exception_handled = NoItem, !.shown = FALSE]
                ELSE frame
    /\ pc' = "operate"
    /\ UNCHANGED <<runs, arrays_vars, files_vars>>

\* lines 48-49: _operate_session attaches the session and runs it until
\* it returns or raises
Operate ==
    /\ pc = "operate"
    /\ \E e \in Exceptions :
         /\ frame' = [frame EXCEPT !.exc = e]
         /\ runs' = [runs EXCEPT ![Len(runs)] =
                       [@ EXCEPT !.operated = frame.session, !.exc = e]]
    /\ pc' = "suspend"
    /\ UNCHANGED <<arrays_vars, files_vars>>

\* lines 50-54: session.suspend(state_file); a failure is logged
Suspend ==
    /\ pc = "suspend"
    /\ pc' = "exit"
    /\ UNCHANGED <<frame, runs, arrays_vars, files_vars>>

\* the end of the with statement of line 46: ExceptionGuard.__exit__ up
\* to its loop, or the exit of nullcontext, which lets every exception pass
Exit ==
    /\ pc = "exit"
    /\ \E bluescreen \in Bluescreens :
         LET verdict == IF frame.guarded THEN guard_exit(frame.exc, bluescreen)
                        ELSE "False"
         IN  /\ pc' = IF verdict = "pause" THEN "pause"
                      ELSE IF verdict = "raised" THEN "raised"
                      ELSE IF frame.exc = "none" THEN "after"
                      ELSE "raised"
             /\ frame' = [frame EXCEPT !.shown = (verdict = "pause")]
             /\ runs' = Noted("shown", verdict = "pause")
    /\ UNCHANGED <<arrays_vars, files_vars>>

\* the loop of ExceptionGuard.__exit__, lines 64-72; leaving it returns
\* True, which ends the exception
Pause ==
    /\ pc = "pause"
    /\ \E event \in PauseEvents :
         LET turn == guard_pause(event, frame.exc, frame.exception_handled)
         IN  /\ frame' = [frame EXCEPT
                            !.exception_handled = turn.exception_handled,
                            !.exc = IF turn.leave THEN "none" ELSE @]
             /\ runs' = Noted("answer", event)
             /\ pc' = IF turn.leave THEN "after" ELSE "pause"
    /\ UNCHANGED <<arrays_vars, files_vars>>

\* lines 55-58: call _run_session again with resume=True, or return
After ==
    /\ pc = "after"
    /\ IF run_again(frame.guarded, frame.exception_handled)
         THEN /\ Len(runs) < MaxRuns
              /\ frame' = [frame EXCEPT !.resume = TRUE, !.session = "none"]
              /\ runs' = Append(runs, NewRun(TRUE))
              /\ pc' = "entry"
       ELSE /\ pc' = "returned"
            /\ UNCHANGED <<frame, runs>>
    /\ UNCHANGED <<arrays_vars, files_vars>>

SessionNext ==
    \/ Launch
    \/ Resume
    \/ Create
    \/ Start
    \/ Enter
    \/ Operate
    \/ Suspend
    \/ Exit
    \/ Pause
    \/ After

SessionSpec == Init /\ [][SessionNext]_vars

(* ----------------------- vocabulary of the claims ----------------------- *)
\* header_size = 1 + max(3, len(name)) + 3 + 2 * ndims
HeaderSize(name, ndims) == 1 + (IF Len(name) > 3 THEN Len(name) ELSE 3) + 3 + 2 * ndims

RECURSIVE ProductFrom(_, _, _)
ProductFrom(dimensions, i, b) ==
    IF i > Len(dimensions) THEN 1
    ELSE (dimensions[i] + 1 - b) * ProductFrom(dimensions, i + 1, b)

\* flat_length as the product over the axes of d_i + 1 - base
FlatLength(dimensions, b) == ProductFrom(dimensions, 1, b)

\* the base a declaration resolves to
ResolvedBase == IF _base = NoBase THEN 0 ELSE _base

\* the names that are declared, and those that are not
Declared == DOMAIN _dims
Undeclared == Names \ DOMAIN _dims

\* the bytes of the header and of the data of a declared array
HeaderRange(n) == _array_memory[n][1] .. (_array_memory[n][2] - 1)
DataRange(n) == _array_memory[n][2] .. (_array_memory[n][2] + Len(_buffers[n]) - 1)

\* the step is a call with outcome r
StepIs(r) ==
    /\ _dims' = r.st._dims
    /\ _buffers' = r.st._buffers
    /\ _cache' = r.st._cache
    /\ _array_memory' = r.st._array_memory
    /\ current' = r.st.current
    /\ _base' = r.st._base

\* the first dimension below the bound lo, when there is one
FirstBelow(dimensions, lo) ==
    CHOOSE i \in DOMAIN dimensions :
        /\ dimensions[i] < lo
        /\ \A j \in 1..(i - 1) : dimensions[j] >= lo

(* ------------------------------- claims -------------------------------- *)
\* C1: in every state, every descriptor has data_address = header_address +
\* header_size, and the header and data ranges of all descriptors are
\* pairwise disjoint and cover [0, current) with no gap.
C1_ArenaTiled ==
    /\ \A n \in Declared :
         _array_memory[n][2] = _array_memory[n][1] + HeaderSize(n, Len(_dims[n]))
    /\ \A n, m \in Declared :
         /\ HeaderRange(n) \cap DataRange(m) = {}
         /\ n # m => /\ HeaderRange(n) \cap HeaderRange(m) = {}
                     /\ DataRange(n) \cap DataRange(m) = {}
    /\ UNION { HeaderRange(n) \cup DataRange(n) : n \in Declared } = 0 .. (current - 1)

\* C2: a successful erase(name) removes the descriptor, lowers both addresses
\* of every remaining descriptor with a greater header address by freed =
\* header_size + data_size (the bytes the declaration added to current),
\* leaves the addresses of the descriptors below unchanged and lowers current
\* by freed.
C2_EraseCompacts ==
    \A name \in Declared :
        LET r == erase(Self, name)
            freed == HeaderSize(name, Len(_dims[name])) + Len(_buffers[name])
            h == _array_memory[name][1]
        IN  r.err = "ok" =>
              /\ name \notin DOMAIN r.st._dims
              /\ name \notin DOMAIN r.st._array_memory
              /\ \A m \in Declared \ {name} :
                   r.st._array_memory[m] =
                     IF _array_memory[m][1] > h
                       THEN <<_array_memory[m][1] - freed, _array_memory[m][2] - freed>>
                       ELSE _array_memory[m]
              /\ r.st.current = current - freed

\* C3: erase(name) leaves the dimensions, the buffer and the cache slot of
\* every other declared array, and OPTION BASE, unchanged.
C3_EraseFrame ==
    \A name \in Names :
        LET r == erase(Self, name)
        IN  /\ r.st._base = _base
            /\ \A m \in Declared \ {name} :
                 /\ m \in DOMAIN r.st._dims
                 /\ r.st._dims[m] = _dims[m]
                 /\ r.st._buffers[m] = _buffers[m]
                 /\ r.st._cache[m] = _cache[m]

\* an erase succeeds next to an array that holds data and a sprite
C3_Witness ==
    \E name, m \in Declared :
        /\ name # m
        /\ erase(Self, name).err = "ok"
        /\ _array_memory[m][1] > _array_memory[name][1]
        /\ _cache[m] = "sprite"
        /\ \E i \in DOMAIN _buffers[m] : _buffers[m][i] # 0

\* C4: a successful declare(name, dimensions) puts the header at the former
\* current and the data header_size above it, raises current by header_size +
\* flat_length * element_size, records the dimensions with a zero-filled
\* buffer of the data size and an empty cache slot, and leaves the
\* addresses, buffers and dimensions of the other arrays unchanged.
C4_Declare ==
    \A name \in Names, dimensions \in DimLists :
        LET r == dim(Self, name, dimensions, TRUE)
            hs == HeaderSize(name, Len(dimensions))
            ds == FlatLength(dimensions, r.st._base) * size_bytes(name)
        IN  r.err = "ok" =>
              /\ name \notin Declared
              /\ r.st._array_memory[name] = <<current, current + hs>>
              /\ r.st.current = current + hs + ds
              /\ r.st._dims[name] = dimensions
              /\ r.st._buffers[name] = [i \in 1..ds |-> 0]
              /\ r.st._cache[name] = NoItem
              /\ \A m \in Declared :
                   /\ r.st._array_memory[m] = _array_memory[m]
                   /\ r.st._buffers[m] = _buffers[m]
                   /\ r.st._dims[m] = _dims[m]

\* an array of two axes has been declared above another array
C4_Witness ==
    \E name \in Declared :
        /\ _array_memory[name][1] > 0
        /\ Len(_dims[name]) = 2
        /\ _array_memory[name][2] + Len(_buffers[name]) = current
        /\ _cache[name] = NoItem
        /\ \A i \in DOMAIN _buffers[name] : _buffers[name][i] = 0

\* C5: after the table-wide clear no descriptor remains, current is 0 and
\* OPTION BASE is unset, so a following set_base(1) succeeds.
C5_ClearResets ==
    LET r == clear(Self)
    IN  /\ r.st._dims = <<>>
        /\ r.st.current = 0
        /\ r.st._base = NoBase
        /\ base(r.st, 1).err = "ok"

C8_Redeclare ==
    \A name \in Declared, dimensions \in DimLists, granted \in BOOLEAN :
        LET r == dim(Self, name, dimensions, granted)
        IN  /\ r.err = "DUPLICATE_DEFINITION"
            /\ r.st._dims = _dims
            /\ r.st._array_memory = _array_memory
            /\ r.st._buffers = _buffers
            /\ r.st._cache = _cache
            /\ r.st.current = current

\* an auto-dimensioned array holds a sprite and refuses a declaration
C8_Witness ==
    \E name \in Declared :
        /\ _dims[name] = <<DefaultDim>>
        /\ _cache[name] = "sprite"
        /\ dim(Self, name, <<-1>>, TRUE).err = "DUPLICATE_DEFINITION"

\* C9: declare on an undeclared name with a dimension that is negative or
\* below the resolved base fails by the first such dimension, IllegalValue
\* if it is negative and SubscriptOutOfRange otherwise, records nothing and
\* leaves current unchanged.
C9_IllegalDimension ==
    \A name \in Undeclared, dimensions \in DimLists, granted \in BOOLEAN :
        LET r == dim(Self, name, dimensions, granted)
            lo == IF ResolvedBase > 0 THEN ResolvedBase ELSE 0
        IN  (\E i \in DOMAIN dimensions : dimensions[i] < lo) =>
              /\ r.err = IF dimensions[FirstBelow(dimensions, lo)] < 0
                           THEN "IFC" ELSE "SUBSCRIPT_OUT_OF_RANGE"
              /\ r.st._dims = _dims
              /\ r.st._buffers = _buffers
              /\ r.st._array_memory = _array_memory
              /\ r.st.current = current

\* under base 1 a declaration fails by a dimension 0 that precedes a
\* negative one
C9_Witness ==
    /\ _base = 1
    /\ \E name \in Undeclared :
         /\ dim(Self, name, <<0, -1>>, TRUE).err = "SUBSCRIPT_OUT_OF_RANGE"
         /\ dim(Self, name, <<-1, 0>>, TRUE).err = "IFC"

\* C10 as stated: after set_base(1), a declaration with any dimension below
\* 1, negative ones included, fails with SubscriptOutOfRange.
C10_BelowOne ==
    (_base = 1 /\ howbase = "explicit") =>
      \A name \in Undeclared, dimensions \in DimLists :
          (\E i \in DOMAIN dimensions : dimensions[i] < 1) =>
            dim(Self, name, dimensions, TRUE).err = "SUBSCRIPT_OUT_OF_RANGE"

\* C10 as amended: after set_base(1), a declaration of an undeclared name
\* with a dimension below 1 fails with SubscriptOutOfRange if the first
\* such dimension is 0 and with IllegalValue if it is negative.
C10_BelowOneSplit ==
    (_base = 1 /\ howbase = "explicit") =>
      \A name \in Undeclared, dimensions \in DimLists :
          (\E i \in DOMAIN dimensions : dimensions[i] < 1) =>
            dim(Self, name, dimensions, TRUE).err =
              IF dimensions[FirstBelow(dimensions, 1)] = 0
                THEN "SUBSCRIPT_OUT_OF_RANGE" ELSE "IFC"

\* OPTION BASE 1 was set and declare("A", [-1]) is an illegal function call
C10_Witness ==
    /\ _base = 1
    /\ howbase = "explicit"
    /\ <<"A", "%">> \in Undeclared
    /\ dim(Self, <<"A", "%">>, <<-1>>, TRUE).err = "IFC"

\* the name has no descriptor, buffer, address pair or cache slot in s that
\* it does not have now, and current is as now
NothingRecorded(s, name) ==
    /\ (name \in DOMAIN s._dims) = (name \in DOMAIN _dims)
    /\ (name \in DOMAIN s._buffers) = (name \in DOMAIN _buffers)
    /\ (name \in DOMAIN s._array_memory) = (name \in DOMAIN _array_memory)
    /\ (name \in DOMAIN s._cache) = (name \in DOMAIN _cache)
    /\ s.current = current

\* the budget check rejects the bytes of a declaration of name
Rejected(name, dimensions, granted) ==
    ~check_free(Self,
                HeaderSize(name, Len(dimensions))
                  + FlatLength(dimensions, ResolvedBase) * size_bytes(name),
                granted)

\* the call with outcome r failed for want of memory and recorded nothing
RejectedClean(r, name) == r.err = "OUT_OF_MEMORY" /\ NothingRecorded(r.st, name)

\* the dimensions are legal under the resolved base
LegalDims(dimensions) ==
    \A i \in DOMAIN dimensions : dimensions[i] >= 0 /\ dimensions[i] >= ResolvedBase

\* C11: when the budget check rejects the header_size + data_size bytes of
\* a declare or of an auto-dimension, the call fails with OutOfMemory,
\* nothing is recorded for the name and current is unchanged.
C11_OutOfMemory ==
    \A name \in Undeclared, granted \in BOOLEAN :
        /\ \A dimensions \in DimLists :
             (LegalDims(dimensions) /\ Rejected(name, dimensions, granted)) =>
               RejectedClean(dim(Self, name, dimensions, granted), name)
        /\ \A idx \in IndexLists, value \in WriteVals :
             Rejected(name, [i \in 1..Len(idx) |-> 10], granted) =>
               /\ RejectedClean(view_buffer(Self, name, idx, granted), name)
               /\ RejectedClean(get(Self, name, idx, granted), name)
               /\ RejectedClean(set(Self, name, idx, value, granted), name)

\* an array is declared and the arena has no room for a second one that
\* the budget would grant
C11_Witness ==
    /\ Declared # {}
    /\ current > 0
    /\ \E name \in Undeclared :
         /\ Rejected(name, <<1, 1>>, TRUE)
         /\ ~Rejected(name, <<0>>, TRUE)
         /\ dim(Self, name, <<1, 1>>, TRUE).err = "OUT_OF_MEMORY"

\* C12: erase(name) on a name that is not declared fails with the illegal
\* function call error and leaves every descriptor, every address, current
\* and OPTION BASE unchanged.
C12_EraseAbsent ==
    \A name \in Undeclared :
        LET r == erase(Self, name)
        IN  /\ r.err = "IFC"
            /\ r.st._dims = _dims
            /\ r.st._buffers = _buffers
            /\ r.st._array_memory = _array_memory
            /\ r.st.current = current
            /\ r.st._base = _base

\* an erase is refused for a name that only has a cache slot, next to a
\* declared array
C12_Witness ==
    \E name \in Undeclared, m \in Declared :
        /\ name \in DOMAIN _cache
        /\ _array_memory[m][2] + Len(_buffers[m]) = current
        /\ erase(Self, name).err = "IFC"

\* n dimensions all equal to 10
Tens(n) == [i \in 1..n |-> 10]

\* the descriptors, addresses, current and base of s are those of t, and
\* the buffer of name has the same length in both
SameDeclaration(s, t, name) ==
    /\ s._dims = t._dims
    /\ s._array_memory = t._array_memory
    /\ s.current = t.current
    /\ s._base = t._base
    /\ DOMAIN s._buffers = DOMAIN t._buffers
    /\ name \in DOMAIN t._buffers => Len(s._buffers[name]) = Len(t._buffers[name])

\* the access with outcome r declared name as the declaration with outcome
\* d did, and fails as d when d fails
DeclaresAs(r, d, name, n) ==
    /\ SameDeclaration(r.st, d.st, name)
    /\ d.err # "ok" => r.err = d.err
    /\ d.err = "ok" =>
         /\ r.st._dims[name] = Tens(n)
         /\ \A dimensions \in DimLists :
              dim(r.st, name, dimensions, TRUE).err = "DUPLICATE_DEFINITION"

Offends(idx, dimensions, i, lo) ==
    idx[i] < 0 \/ idx[i] < lo \/ idx[i] > dimensions[i]

\* the first offending axis, when there is one
FirstOffending(idx, dimensions, lo) ==
    CHOOSE i \in DOMAIN idx :
        /\ Offends(idx, dimensions, i, lo)
        /\ \A j \in 1..(i - 1) : ~Offends(idx, dimensions, j, lo)

\* the error the claim gives to the index of a declared array, "ok" for a
\* legal one
IndexVerdict(idx, dimensions, lo) ==
    IF Len(idx) # Len(dimensions) THEN "SUBSCRIPT_OUT_OF_RANGE"
    ELSE IF \A i \in DOMAIN idx : ~Offends(idx, dimensions, i, lo) THEN "ok"
    ELSE IF idx[FirstOffending(idx, dimensions, lo)] < 0 THEN "IFC"
    ELSE "SUBSCRIPT_OUT_OF_RANGE"

\* the call with outcome r changed no buffer, address, dimension or current
AccessFrame(r) ==
    /\ r.st._buffers = _buffers
    /\ r.st._array_memory = _array_memory
    /\ r.st._dims = _dims
    /\ r.st.current = current

\* C14: for a declared array the index is refused with SubscriptOutOfRange
\* when its length differs from the number of dimensions; otherwise the
\* first offending axis decides, IllegalValue for a negative index and
\* SubscriptOutOfRange for one below the base or above the maximum; a
\* failing access changes no buffer, address, dimension or current; an
\* index within base..dimensions[i] on every axis is accepted.
C14_IndexChecked ==
    \A name \in Declared, idx \in IndexLists :
        LET verdict == IndexVerdict(idx, _dims[name], ResolvedBase)
            c == check_dim(Self, name, idx, TRUE)
            v == view_buffer(Self, name, idx, TRUE)
            g == get(Self, name, idx, TRUE)
        IN  /\ c.err = verdict
            /\ c.dimensions = _dims[name]
            /\ c.st = Self
            /\ verdict # "ok" => (v.err = verdict /\ g.err = verdict)
            /\ AccessFrame(v)
            /\ AccessFrame(g)
            /\ \A value \in WriteVals :
                 LET w == set(Self, name, idx, value, TRUE)
                 IN  /\ verdict # "ok" => w.err = verdict
                     /\ w.err # "ok" => AccessFrame(w)

\* under OPTION BASE 1 an array of two axes takes the index [1, 1] and
\* refuses [0, -1] and [-1, 0] with different errors
C14_Witness ==
    /\ _base = 1
    /\ \E name \in Declared :
         /\ Len(_dims[name]) = 2
         /\ check_dim(Self, name, <<1, 1>>, TRUE).err = "ok"
         /\ check_dim(Self, name, <<0, -1>>, TRUE).err = "SUBSCRIPT_OUT_OF_RANGE"
         /\ check_dim(Self, name, <<-1, 0>>, TRUE).err = "IFC"
         /\ check_dim(Self, name, <<1>>, TRUE).err = "SUBSCRIPT_OUT_OF_RANGE"

\* the outcomes of the calls that the claim lets follow a write to idx of
\* name: writes to other indices of name, writes to other arrays,
\* declarations of other arrays and erasures of other arrays
LaterCalls(name, idx) ==
    { set(Self, name, other, value, TRUE) :
        other \in IndexLists \ {idx}, value \in WriteVals }
    \cup { set(Self, m, other, value, granted) :
             m \in Names \ {name}, other \in IndexLists, value \in WriteVals,
             granted \in BOOLEAN }
    \cup { dim(Self, m, dimensions, granted) :
             m \in Names \ {name}, dimensions \in DimLists, granted \in BOOLEAN }
    \cup { erase(Self, m) : m \in Names \ {name} }

\* C15: a successful write(name, idx, v) makes read(name, idx) return v, and
\* an element that reads as a written value v still reads as v after a write
\* to another index of the array, a write to another array, and a
\* declaration or an erasure of another array.
C15_RoundTrip ==
    \A name \in Declared, idx \in IndexLists :
        /\ \A value \in WriteVals :
             LET w == set(Self, name, idx, value, TRUE)
                 g == get(w.st, name, idx, TRUE)
             IN  w.err = "ok" => (g.err = "ok" /\ g.ret = value)
        /\ LET g == get(Self, name, idx, TRUE)
           IN  (g.err = "ok" /\ g.ret \in WriteVals) =>
                 \A r \in LaterCalls(name, idx) :
                     LET h == get(r.st, name, idx, TRUE)
                     IN  h.err = "ok" /\ h.ret = g.ret

\* the second array in the arena holds a written value in an element that
\* is not its first
C15_Witness ==
    \E name \in Declared, idx \in IndexLists :
        /\ _array_memory[name][1] > 0
        /\ get(Self, name, idx, TRUE).err = "ok"
        /\ get(Self, name, idx, TRUE).ret \in WriteVals
        /\ index(idx, _dims[name], _base) > 0

\* the indices of a declared array that are legal under a concrete base
LegalIndex(name, idx) ==
    /\ _base # NoBase
    /\ IndexVerdict(idx, _dims[name], _base) = "ok"

\* the bytes of the element of flat index k of the buffer of name
ElementBytes(name, k) ==
    SubSeq(_buffers[name], k * size_bytes(name) + 1, (k + 1) * size_bytes(name))

\* C16: for every declared array and every legal index, also when several
\* arrays are declared, locate_by_address(address_of(name, idx)) returns
\* the value built from the element_size(name) bytes stored at idx in the
\* buffer of that array.
C16_DerefRoundTrip ==
    \A vc \in VarCurrents, name \in Declared, idx \in IndexLists :
        LegalIndex(name, idx) =>
          LET a == varptr(Self, vc, name, idx)
              k == index(idx, _dims[name], _base)
          IN  /\ a.err = "ok"
              /\ \A v \in dereference(Self, vc, a.ret) :
                   /\ v.err = "ok"
                   /\ v.ret = <<size_bytes(name), from_bytes(ElementBytes(name, k))>>

RECURSIVE StrideBelow(_, _, _)
\* the product over the axes j < i of dimensions[j] + 1 - b
StrideBelow(dimensions, i, b) ==
    IF i <= 1 THEN 1
    ELSE (dimensions[i - 1] + 1 - b) * StrideBelow(dimensions, i - 1, b)

RECURSIVE OffsetUpTo(_, _, _, _)
\* the sum over the axes i <= n of (idx[i] - b) * StrideBelow(dimensions, i, b)
OffsetUpTo(idx, dimensions, n, b) ==
    IF n = 0 THEN 0
    ELSE (idx[n] - b) * StrideBelow(dimensions, n, b)
           + OffsetUpTo(idx, dimensions, n - 1, b)

\* flat_offset as the claim writes it
FlatOffset(idx, dimensions, b) == OffsetUpTo(idx, dimensions, Len(idx), b)

\* a table that holds the array A% of dimensions [3, 4] alone, under base 0
Table34 ==
    [_dims |-> Put(<<>>, <<"A", "%">>, <<3, 4>>),
     _buffers |-> Put(<<>>, <<"A", "%">>, bytearray(40)),
     _cache |-> Put(<<>>, <<"A", "%">>, NoItem),
     _array_memory |-> Put(<<>>, <<"A", "%">>, <<0, 11>>),
     current |-> 51,
     _base |-> 0]

\* the address of [3, 4] in Table34
Address34 ==
    \A vc \in VarCurrents :
        varptr(Table34, vc, <<"A", "%">>, <<3, 4>>).ret = vc + 11 + 19 * 2

\* Arrays.index is flat_offset on arrays of three axes
OffsetOnThreeAxes ==
    \A dimensions \in [1..3 -> 1..2], idx \in [1..3 -> 0..1], b \in {0, 1} :
        index(idx, dimensions, b) = FlatOffset(idx, dimensions, b)

\* C17: address_of(name, index) is variable_area_base + data_address(name)
\* + element_size(name) * flat_offset(index), flat_offset being the sum over
\* the axes i of (index[i] - base) times the product over j < i of
\* (dimensions[j] + 1 - base); for dimensions [3, 4] under base 0 the
\* address of [3, 4] is data_address + 19 * element_size.
C17_AddressOf ==
    /\ \A vc \in VarCurrents, name \in Declared, idx \in IndexLists :
         (_base # NoBase /\ Len(idx) = Len(_dims[name])) =>
           LET a == varptr(Self, vc, name, idx)
           IN  /\ a.err = "ok"
               /\ a.ret = vc + _array_memory[name][2]
                            + size_bytes(name) * FlatOffset(idx, _dims[name], _base)
    /\ Address34
    /\ OffsetOnThreeAxes

\* under base 0 the second array of the arena has dimensions [1, 1], and
\* its element [0, 1] lies two elements above its data address
C17_Witness ==
    /\ _base = 0
    /\ \E name \in Declared :
         /\ _dims[name] = <<1, 1>>
         /\ _array_memory[name][1] > 0
         /\ varptr(Self, MaxVarCurrent, name, <<0, 1>>).ret
              = MaxVarCurrent + _array_memory[name][2] + 2 * size_bytes(name)

\* the dimension lists the two computations of the length are compared on
LengthLists ==
    DimLists \cup { Tens(n) : n \in Axes } \cup { <<3, 4>> } \cup [1..3 -> 0..2]

\* Arrays.array_len is the product of the extents on the lists
LengthOnLists ==
    \A dimensions \in LengthLists, b \in {0, 1} :
        (\A i \in DOMAIN dimensions : dimensions[i] >= b) =>
          array_len(dimensions, b) = FlatLength(dimensions, b)

\* C18: for every dimension list with at least one axis whose entries are
\* all >= base, and base in {0, 1}, flat_length computed as
\* flat_offset(dimensions, dimensions) + 1 is the product over the axes of
\* d_i + 1 - base.
C18_LengthIsProduct ==
    /\ LengthOnLists
    /\ \A name \in Undeclared, dimensions \in DimLists :
         LET r == dim(Self, name, dimensions, TRUE)
         IN  r.err = "ok" =>
               Len(r.st._buffers[name])
                 = FlatLength(dimensions, r.st._base) * size_bytes(name)

\* under OPTION BASE 1 an array of dimensions [1, 1] is declared with the
\* single element its product gives
C18_Witness ==
    /\ _base = 1
    /\ \E name \in Declared :
         /\ _dims[name] = <<1, 1>>
         /\ Len(_buffers[name]) = size_bytes(name)
         /\ array_len(_dims[name], _base) = 1

\* the absolute addresses of the data and of the header of a declared
\* array when the array area starts at vc
AbsData(vc, n) == { vc + a : a \in DataRange(n) }
AbsHeader(vc, n) == { vc + a : a \in HeaderRange(n) }

\* C19: for any variable_area_base, a non-zero one included, and any
\* absolute address in the data range of a descriptor D, address_to_byte
\* returns the byte of the buffer of D at offset address -
\* variable_area_base - data_address(D).
C19_DataByte ==
    \A vc \in VarCurrents, D \in Declared :
        \A address \in AbsData(vc, D) :
            \A v \in get_memory(Self, vc, address) :
                /\ v.err = "ok"
                /\ v.part = "data"
                /\ v.of = D
                /\ v.ret = _buffers[D][address - vc - _array_memory[D][2] + 1]

\* the number of bytes of the name part of the header of name
NamePart(name) == (IF Len(name) > 3 THEN Len(name) ELSE 3) + 1

\* the word at the bytes k, k + 1 (from 0) of a packed record
WordAt(rep, k) == rep[k + 1] + 256 * rep[k + 2]

\* C20: for every descriptor and every address in its header range,
\* address_to_byte returns a defined byte of the synthesized header: the
\* name part has max(3, len(name)) + 1 bytes and the packed record 3 +
\* 2*ndims bytes, header_size bytes together, and the word of dimension i is
\* dimensions[i] + 1 - base for the base in force at the call.
C20_HeaderByte ==
    \A vc \in VarCurrents, D \in Declared :
        LET ndims == Len(_dims[D])
            rep == data_rep(Self, D)
        IN  /\ NamePart(D) + 3 + 2 * ndims = HeaderSize(D, ndims)
            /\ \A address \in AbsHeader(vc, D) :
                 LET o == address - vc - _array_memory[D][1]
                 IN  \A v \in get_memory(Self, vc, address) :
                         /\ v.err = "ok"
                         /\ v.of = D
                         /\ o < NamePart(D) => (v.part = "name" /\ v.ret = o)
                         /\ o >= NamePart(D) =>
                              /\ v.part = "record"
                              /\ Len(rep) = 3 + 2 * ndims
                              /\ v.ret = rep[o - NamePart(D) + 1]
                              /\ rep[3] = ndims
                              /\ \A i \in 1..ndims :
                                   WordAt(rep, 3 + 2 * (i - 1)) = _dims[D][i] + 1 - _base


\* the absolute addresses a lookup is asked for
Addresses(vc) == 0 .. (vc + current + 1)

\* the absolute address lies in no header and no data range
Unowned(vc, address) ==
    \A D \in Declared : address \notin AbsHeader(vc, D) \cup AbsData(vc, D)

\* C21: a lookup, locate_by_address or address_to_byte, of an address that
\* lies below every descriptor, past the data of the owning descriptor or
\* past the span of the last array returns the no-value sentinel and
\* raises no error, also when no array is declared.
C21_Sentinel ==
    \A vc \in VarCurrents :
        \A address \in Addresses(vc) :
            Unowned(vc, address) =>
              /\ \A v \in get_memory(Self, vc, address) :
                   v.err = "ok" /\ v.part = "none" /\ v.ret = -1
              /\ \A v \in dereference(Self, vc, address) :
                   v.err = "ok" /\ v.ret = NoItem


\* C22: in every state and for every descriptor, the length of the element
\* buffer is flat_length(dimensions) * element_size(name) under the base
\* now in force, and size_in_bytes(name) reports that value.
C22_BufferLength ==
    \A D \in Declared :
        LET r == array_size_bytes(Self, D)
        IN  /\ _base # NoBase
            /\ Len(_buffers[D]) = FlatLength(_dims[D], _base) * size_bytes(D)
            /\ r.err = "ok"
            /\ r.ret = Len(_buffers[D])


\* the cache slot of name holds nothing in the cache table c
SlotEmpty(c, name) == name \notin DOMAIN c \/ c[name] = NoItem

\* the cache slots of the names other than name are in c as they are now
OtherSlotsKept(c, name) ==
    \A m \in Names \ {name} :
        /\ m \in DOMAIN c <=> m \in DOMAIN _cache
        /\ m \in DOMAIN _cache => c[m] = _cache[m]

\* C23 as stated: every call write(name, index, value) leaves the cache
\* slot of name empty, whatever the slot held and whatever the index and
\* the value are, and changes the cache slot of no other array.
C23_EveryWrite ==
    \A name \in Names, idx \in IndexLists, value \in WriteVals, granted \in BOOLEAN :
        LET w == set(Self, name, idx, value, granted)
        IN  /\ SlotEmpty(w.st._cache, name)
            /\ OtherSlotsKept(w.st._cache, name)

\* C23: every successful write(name, index, value), and every write that
\* declares name by auto-dimension, leaves the cache slot of name empty,
\* whatever the slot held before; a failing write that declares nothing
\* leaves the slot as it was; no write changes the cache slot of another
\* array.
C23_SuccessfulWrite ==
    \A name \in Names, idx \in IndexLists, value \in WriteVals, granted \in BOOLEAN :
        LET w == set(Self, name, idx, value, granted)
        IN  /\ OtherSlotsKept(w.st._cache, name)
            /\ (w.err = "ok" \/ w.st._dims # _dims) =>
                 (name \in DOMAIN w.st._cache /\ w.st._cache[name] = NoItem)
            /\ (w.err # "ok" /\ w.st._dims = _dims) => w.st._cache = _cache

\* a declared array holds an item in its cache slot, next to another array
\* with an item; a write to the first succeeds on one index and fails on
\* another
C23_Witness ==
    \E name \in Declared, m \in Declared :
        /\ m # name
        /\ _cache[name] \in Items
        /\ _cache[m] \in Items
        /\ set(Self, name, <<0>>, 258, TRUE).err = "ok"
        /\ set(Self, name, <<-1>>, 258, TRUE).err = "IFC"


\* the outcome r of an access refused the index idx and left name declared
\* with every dimension 10 and current grown by the size of the record
RefusedButDeclared(r, name, idx) ==
    LET n == Len(idx)
        b == ResolvedBase
    IN  /\ r.err = IndexVerdict(idx, Tens(n), b)
        /\ r.err \in {"IFC", "SUBSCRIPT_OUT_OF_RANGE"}
        /\ name \in DOMAIN r.st._dims
        /\ r.st._dims[name] = Tens(n)
        /\ name \in DOMAIN r.st._buffers
        /\ r.st._array_memory[name] = <<current, current + HeaderSize(name, n)>>
        /\ r.st.current =
             current + HeaderSize(name, n) + FlatLength(Tens(n), b) * size_bytes(name)

Greatest(dimensions) ==
    CHOOSE m \in { dimensions[i] : i \in DOMAIN dimensions } :
        \A i \in DOMAIN dimensions : dimensions[i] <= m

\* the legal indices of the dimensions under the base b
LegalIndices(dimensions, b) ==
    { idx \in [1..Len(dimensions) -> b .. Greatest(dimensions)] :
        \A i \in DOMAIN dimensions : idx[i] <= dimensions[i] }

\* Arrays.index is one-to-one from the legal indices onto 0 .. length - 1,
\* on the dimension lists of LengthLists
OffsetBijective ==
    \A dimensions \in LengthLists, b \in {0, 1} :
        (\A i \in DOMAIN dimensions : dimensions[i] >= b) =>
          LET legal == LegalIndices(dimensions, b)
          IN  /\ { index(idx, dimensions, b) : idx \in legal }
                   = 0 .. (array_len(dimensions, b) - 1)
              /\ \A idx \in legal, other \in legal :
                   index(idx, dimensions, b) = index(other, dimensions, b)
                     => idx = other

\* name was declared under the base now in force
UnderItsBase(name) ==
    /\ _base # NoBase
    /\ \A i \in DOMAIN _dims[name] : _dims[name][i] >= _base
    /\ Len(_buffers[name]) = array_len(_dims[name], _base) * size_bytes(name)

\* C25: for a declared array under the base in force at its declaration,
\* flat_offset maps the legal indices one-to-one onto 0 .. flat_length - 1;
\* the element views of two different legal indices have no byte in common
\* and every view lies inside the buffer.
C25_OffsetBijective ==
    /\ OffsetBijective
    /\ \A name \in Declared :
         UnderItsBase(name) =>
           LET legal == LegalIndices(_dims[name], _base)
               view(idx) == view_buffer(Self, name, idx, TRUE)
           IN  /\ \A idx \in legal :
                    /\ view(idx).err = "ok"
                    /\ view(idx).st = Self
                    /\ 1 <= view(idx).lo
                    /\ view(idx).hi <= Len(_buffers[name])
                    /\ view(idx).hi - view(idx).lo + 1 = size_bytes(name)
               /\ \A idx \in legal, other \in legal :
                    idx # other =>
                      \/ view(idx).hi < view(other).lo
                      \/ view(other).hi < view(idx).lo

\* an array of two axes with four elements is declared under its base and
\* the views of its four legal indices are taken
C25_Witness ==
    \E name \in Declared :
        /\ UnderItsBase(name)
        /\ Len(_dims[name]) = 2
        /\ Cardinality(LegalIndices(_dims[name], _base)) = 4
        /\ \A idx \in LegalIndices(_dims[name], _base) :
             view_buffer(Self, name, idx, TRUE).err = "ok"


\* the positions in the buffer of name of the bytes of the element idx
ElementPositions(name, idx) ==
    LET k == FlatOffset(idx, _dims[name], _base)
    IN  (k * size_bytes(name) + 1) .. ((k + 1) * size_bytes(name))

\* C26: a successful write(name, idx, v) to a declared array changes only
\* the element_size(name) bytes of idx in the buffer of name and the cache
\* slot of name; every other byte of that buffer, the buffers of the other
\* arrays, all dimensions, all header and data addresses, current and
\* OPTION BASE are unchanged; read on a declared array changes nothing.
C26_WriteFrame ==
    \A name \in Declared, idx \in IndexLists :
        /\ get(Self, name, idx, TRUE).st = Self
        /\ \A value \in WriteVals :
             LET w == set(Self, name, idx, value, TRUE)
             IN  w.err = "ok" =>
                   /\ DOMAIN w.st._buffers = DOMAIN _buffers
                   /\ Len(w.st._buffers[name]) = Len(_buffers[name])
                   /\ \A i \in 1..Len(_buffers[name]) :
                        i \notin ElementPositions(name, idx) =>
                          w.st._buffers[name][i] = _buffers[name][i]
                   /\ \A m \in Declared \ {name} : w.st._buffers[m] = _buffers[m]
                   /\ OtherSlotsKept(w.st._cache, name)
                   /\ w.st._dims = _dims
                   /\ w.st._array_memory = _array_memory
                   /\ w.st.current = current
                   /\ w.st._base = _base

\* an array holds a written value in one element and takes a write to
\* another element, next to a second array
C26_Witness ==
    \E name \in Declared, m \in Declared :
        /\ m # name
        /\ \E idx \in IndexLists, other \in IndexLists :
             /\ idx # other
             /\ get(Self, name, idx, TRUE).err = "ok"
             /\ get(Self, name, idx, TRUE).ret \in WriteVals
             /\ set(Self, name, other, 258, TRUE).err = "ok"


\* the four tables of s have the same names
SameNames(s) ==
    /\ DOMAIN s._buffers = DOMAIN s._dims
    /\ DOMAIN s._array_memory = DOMAIN s._dims
    /\ DOMAIN s._cache = DOMAIN s._dims

\* C27: after any sequence of operations, set_cache and get_cache on
\* arbitrary names included, the names with dimensions, the names with a
\* buffer, the names with an address pair and the names with a cache slot
\* are the same set.
C27_SameNames ==
    /\ SameNames(Self)
    /\ \A name \in Names : SameNames(get_cache(Self, name).st)


\* C28: in every state with at least one array declared, OPTION BASE is
\* resolved to 0 or 1, so that erase, size_in_bytes, address_of and the
\* address lookups on declared arrays compute their offsets.
C28_BaseResolved ==
    \A D \in Declared :
        /\ _base \in {0, 1}
        /\ erase(Self, D).err = "ok"
        /\ array_size_bytes(Self, D).err = "ok"
        /\ \A vc \in VarCurrents :
             /\ varptr(Self, vc, D, [i \in DOMAIN _dims[D] |-> _dims[D][i]]).err = "ok"
             /\ \A address \in AbsData(vc, D) \cup AbsHeader(vc, D) :
                  \A v \in get_memory(Self, vc, address) : v.err # "TypeError"


\* C29 as stated: a declare that fails with any error leaves OPTION BASE
\* as it was before the call, so that after a failing declare under an
\* unset base set_base(1) still succeeds.
C29_BaseUntouched ==
    \A name \in Names, dimensions \in DimLists, granted \in BOOLEAN :
        LET d == dim(Self, name, dimensions, granted)
        IN  d.err # "ok" =>
              /\ d.st._base = _base
              /\ _base = NoBase => base(d.st, 1).err = "ok"

\* C29: a declare that fails with any error (duplicate name, illegal
\* dimension, out of memory) records nothing and leaves a base of 0 or 1
\* as it was, but an unset base is resolved to 0 before the call fails, so
\* that a later set_base(1) fails with DuplicateDefinition and set_base(0)
\* succeeds.
C29_BaseResolvedFirst ==
    \A name \in Names, dimensions \in DimLists, granted \in BOOLEAN :
        LET d == dim(Self, name, dimensions, granted)
        IN  d.err # "ok" =>
              /\ d.err \in {"DUPLICATE_DEFINITION", "IFC", "SUBSCRIPT_OUT_OF_RANGE",
                            "OUT_OF_MEMORY"}
              /\ d.st._dims = _dims
              /\ d.st.current = current
              /\ _base # NoBase => d.st._base = _base
              /\ _base = NoBase =>
                   /\ d.st._base = 0
                   /\ base(d.st, 1).err = "DUPLICATE_DEFINITION"
                   /\ base(d.st, 0).err = "ok"

\* with the base unset, a declare fails on a negative dimension, another
\* for want of memory, and a third, with an array declared, on its name
C29_Witness ==
    /\ _base = NoBase
    /\ \E name \in Declared, other \in Undeclared :
         /\ dim(Self, name, <<0>>, TRUE).err = "DUPLICATE_DEFINITION"
         /\ dim(Self, other, <<-1>>, TRUE).err = "IFC"
         /\ dim(Self, other, <<0>>, FALSE).err = "OUT_OF_MEMORY"


\* the file numbers that hold a lock on the stream name
Holders(name) == { fnum \in DOMAIN locks : locks[fnum] = name }

\* every file number that holds a lock has an open file
LocksOfOpenFiles == DOMAIN locks \subseteq DOMAIN files

\* the request with outcome r was denied and changed no table
Denied(r) ==
    /\ r.err = "PERMISSION_DENIED"
    /\ r.st.locks = locks
    /\ r.st.files = files

\* C30: LOCK READ WRITE is exclusive in both directions: a LOCK READ WRITE
\* request on a stream is denied with PERMISSION_DENIED when another file
\* number holds a lock on the stream, and while a file holds a LOCK READ
\* WRITE lock every lock request of another file number on the stream, of
\* any lock type and access mode, is denied; a denied request leaves the
\* lock table unchanged.  Stated for the tables in which every lock is
\* held by an open file.
C30_ReadWriteExclusive ==
    LocksOfOpenFiles =>
      \A name \in Streams, number \in FileNumbers \ {0}, access \in Accesses :
          /\ Holders(name) \ {number} # {} =>
               Denied(acquire_lock(FSelf, name, number, <<"R", "W">>, access))
          /\ \A lock_type \in LockTypes :
               LET r == acquire_lock(FSelf, name, number, lock_type, access)
               IN  /\ (\E fnum \in Holders(name) \ {number} :
                          files[fnum].lock_type = <<"R", "W">>) => Denied(r)
                   /\ r.err = "PERMISSION_DENIED" => r.st.locks = locks


\* the record of the call of _run_session in progress
ThisRun == runs[Len(runs)]

\* the step calls _run_session again
CallsAgain == pc # "launch" /\ Len(runs') = Len(runs) + 1

\* run r was ended by an exception for which the crash guard showed its
\* message and the pause was answered with the Enter key
GuardedCrash(r) ==
    /\ r.exc \notin {"none", "Reset", "BrokenPipe"}
    /\ r.shown
    /\ r.answer = "Enter"

\* every call of _run_session but the first follows a guarded crash and
\* has resume=True
RunsFollowCrashes ==
    \A i \in 2 .. Len(runs) : GuardedCrash(runs[i - 1]) /\ runs[i].resume

C32_ResumedOperated ==
    \A i \in 1 .. Len(runs) :
        runs[i].resume =>
          /\ runs[i].resumed =>
               /\ runs[i].started \in {"none", "resumed"}
               /\ runs[i].operated \in {"none", "resumed"}
               /\ (i = Len(runs) /\ pc \in {"start", "enter", "operate"}) =>
                    frame.session = "resumed"
          /\ ~runs[i].resumed =>
               /\ runs[i].started = "none"
               /\ runs[i].operated = "none"
               /\ (i = Len(runs) /\ pc # "entry") => pc = "returned"

=============================================================================
